---- MODULE Spec2Model ----
(***************************************************************************)
(* Model of app/app.py: a Flask application with three routes and a        *)
(* before_request / after_request hook pair that feeds two Prometheus     *)
(* metrics.  Every request is handled by its own thread of the server, so  *)
(* the steps of different requests interleave freely.  Time is a discrete  *)
(* clock that only moves forward; time.time() reads it.                    *)
(***************************************************************************)
EXTENDS Integers, Sequences, FiniteSets

\* ------------------------------------------------------------------ bounds
\* number of requests the server handles in one behaviour; they are numbered
\* in the order in which the server accepts them
NReq == 2
\* last value of the clock
MaxClock == 2

\* random.uniform(0.01, 0.2) of index(), in clock ticks
MinDelay == 1
MaxDelay == 2

Requests == 1..NReq

\* ------------------------------------------------------------------- state
VARIABLES
    clock,            \* the value time.time() returns
    start_time,       \* attribute app._start_time: <<>> when not set, else <<t>>
    REQUEST_COUNT,    \* counter hwmonitor_requests_total: labels -> value
    REQUEST_LATENCY,  \* histogram hwmonitor_request_latency_seconds: endpoint -> count, sum
    pc,               \* position of each request in its handling path
    method,           \* request.method
    path,             \* request.path
    wake,             \* end of the time.sleep() of index()
    response,         \* the response object of each request
    endpoint,         \* local variable endpoint of _record_metrics
    t_now,            \* left operand time.time() of line 42
    own_start,        \* the clock value this request's own _start_timer read
    incOf,            \* the labels under which this request incremented the counter
    obsOf             \* the observation this request made into the histogram

vars == <<clock, start_time, REQUEST_COUNT, REQUEST_LATENCY, pc, method, path,
          wake, response, endpoint, t_now, own_start, incOf, obsOf>>

\* --------------------------------------------------------- request context
Methods == {"GET"}
RoutedPaths == {"/", "/healthz", "/metrics"}
\* "/nope" stands for any path no route matches
Paths == RoutedPaths \cup {"/nope"}
Statuses == {200, 404}
LabelSet == Methods \X Paths \X Statuses

NoResponse == [status |-> 0, body |-> "", samples |-> 0]

\* app.view_functions.get(request.endpoint, None).__name__, "unknown" when
\* no view function is found
ViewName(p) ==
    CASE p = "/"        -> "index"
      [] p = "/healthz" -> "healthz"
      [] p = "/metrics" -> "metrics"
      [] OTHER          -> "unknown"

\* ---------------------------------------------------------------- registry
RECURSIVE SumOver(_, _)
SumOver(f, S) ==
    IF S = {} THEN 0
    ELSE LET l == CHOOSE e \in S : TRUE IN f[l] + SumOver(f, S \ {l})

\* Counter.labels(...).inc(): one atomic increment of one labelled child
\* faulty variant: the child is stored, not added to (a lost update)
IncLost(c, l) == [c EXCEPT ![l] = 1]
Inc(c, l) == [c EXCEPT ![l] = @ + 1]

\* Histogram.labels(endpoint=...).observe(v)
Observe(h, e, v) == [h EXCEPT ![e].count = @ + 1, ![e].sum = @ + v]

\* generate_latest(): the counter samples of the rendered payload, summed
\* faulty variant: only the samples of successful requests are rendered
SamplesOkOnly(c) == SumOver(c, {l \in LabelSet : l[3] = 200})
Samples(c) == SumOver(c, LabelSet)

\* sum of the counter over all label combinations with one endpoint
CountFor(c, p) == SumOver(c, {l \in LabelSet : l[2] = p})

\* ---------------------------------------------------------------- handlers
GreetingResponse ==
    [status |-> 200, body |-> "{\"message\": \"Hello from HWMonitor Flask app!\"}", samples |-> 0]

HealthzResponse == [status |-> 200, body |-> "{\"status\": \"ok\"}", samples |-> 0]

MetricsResponse(c) == [status |-> 200, body |-> "exposition", samples |-> Samples(c)]

NotFoundResponse == [status |-> 404, body |-> "Not Found", samples |-> 0]

\* labels of the counter increment: request.method, request.path, response.status_code
\* faulty variant: the status label is written as a literal
CountLabelsOk(r) == <<method[r], path[r], 200>>
CountLabels(r) == <<method[r], path[r], response[r].status>>

\* label of the histogram observation: request.path
\* faulty variant: the endpoint label is written as a literal
LatencyLabelRoot(r) == "/"
LatencyLabel(r) == path[r]

\* time.time() - getattr(app, "_start_time", time.time())
Elapsed(now, attr, default) ==
    IF Len(attr) > 0 THEN now - attr[1] ELSE now - default

Init ==
    /\ clock = 0
    /\ start_time = <<>>
    /\ REQUEST_COUNT = [l \in LabelSet |-> 0]
    /\ REQUEST_LATENCY = [p \in Paths |-> [count |-> 0, sum |-> 0]]
    /\ pc = [r \in Requests |-> "idle"]
    /\ method = [r \in Requests |-> "GET"]
    /\ path = [r \in Requests |-> "/"]
    /\ wake = [r \in Requests |-> 0]
    /\ response = [r \in Requests |-> NoResponse]
    /\ endpoint = [r \in Requests |-> ""]
    /\ t_now = [r \in Requests |-> 0]
    /\ own_start = [r \in Requests |-> <<>>]
    /\ incOf = [r \in Requests |-> <<>>]
    /\ obsOf = [r \in Requests |-> <<>>]

\* the clock moves forward
Tick ==
    /\ clock < MaxClock
    /\ clock' = clock + 1
    /\ UNCHANGED <<start_time, REQUEST_COUNT, REQUEST_LATENCY, pc, method, path,
                   wake, response, endpoint, t_now, own_start, incOf, obsOf>>

\* r is the next request the server accepts
Accepted(r) == \A q \in Requests : q < r => pc[q] # "idle"

\* the server accepts a request, creates its request context and runs the
\* before_request hook: setattr(app, "_start_time", time.time())
_start_timer(r) ==
    /\ pc[r] = "idle"
    /\ Accepted(r)
    /\ \E m \in Methods, p \in Paths :
          /\ method' = [method EXCEPT ![r] = m]
          /\ path' = [path EXCEPT ![r] = p]
    /\ start_time' = <<clock>>
    /\ own_start' = [own_start EXCEPT ![r] = <<clock>>]
    /\ pc' = [pc EXCEPT ![r] = "dispatch"]
    /\ UNCHANGED <<clock, REQUEST_COUNT, REQUEST_LATENCY, wake, response,
                   endpoint, t_now, incOf, obsOf>>

\* index(): time.sleep(random.uniform(0.01, 0.2)) suspends this request only
index_sleep(r) ==
    /\ pc[r] = "dispatch"
    /\ path[r] = "/"
    /\ \E d \in MinDelay..MaxDelay : wake' = [wake EXCEPT ![r] = clock + d]
    /\ pc' = [pc EXCEPT ![r] = "sleeping"]
    /\ UNCHANGED <<clock, start_time, REQUEST_COUNT, REQUEST_LATENCY, method, path,
                   response, endpoint, t_now, own_start, incOf, obsOf>>

\* index(): the sleep is over, return jsonify({"message": ...})
index(r) ==
    /\ pc[r] = "sleeping"
    /\ clock >= wake[r]
    /\ response' = [response EXCEPT ![r] = GreetingResponse]
    /\ wake' = [wake EXCEPT ![r] = 0]
    /\ pc' = [pc EXCEPT ![r] = "after"]
    /\ UNCHANGED <<clock, start_time, REQUEST_COUNT, REQUEST_LATENCY, method, path,
                   endpoint, t_now, own_start, incOf, obsOf>>

\* faulty variant: the health handler sleeps as the greeting handler does
healthz_delayed(r) ==
    /\ pc[r] = "dispatch"
    /\ path[r] = "/healthz"
    /\ wake' = [wake EXCEPT ![r] = clock + MinDelay]
    /\ pc' = [pc EXCEPT ![r] = "sleeping"]
    /\ UNCHANGED <<clock, start_time, REQUEST_COUNT, REQUEST_LATENCY, method, path,
                   response, endpoint, t_now, own_start, incOf, obsOf>>

\* healthz(): return jsonify({"status": "ok"})
healthz(r) ==
    /\ pc[r] = "dispatch"
    /\ path[r] = "/healthz"
    /\ response' = [response EXCEPT ![r] = HealthzResponse]
    /\ pc' = [pc EXCEPT ![r] = "after"]
    /\ UNCHANGED <<clock, start_time, REQUEST_COUNT, REQUEST_LATENCY, method, path,
                   wake, endpoint, t_now, own_start, incOf, obsOf>>

\* metrics(): return Response(generate_latest(), ...)
metrics(r) ==
    /\ pc[r] = "dispatch"
    /\ path[r] = "/metrics"
    /\ response' = [response EXCEPT ![r] = MetricsResponse(REQUEST_COUNT)]
    /\ pc' = [pc EXCEPT ![r] = "after"]
    /\ UNCHANGED <<clock, start_time, REQUEST_COUNT, REQUEST_LATENCY, method, path,
                   wake, endpoint, t_now, own_start, incOf, obsOf>>

\* no route matches the path: the framework answers 404
not_found(r) ==
    /\ pc[r] = "dispatch"
    /\ path[r] \notin RoutedPaths
    /\ response' = [response EXCEPT ![r] = NotFoundResponse]
    /\ pc' = [pc EXCEPT ![r] = "after"]
    /\ UNCHANGED <<clock, start_time, REQUEST_COUNT, REQUEST_LATENCY, method, path,
                   wake, endpoint, t_now, own_start, incOf, obsOf>>

\* _record_metrics, lines 28-38: derive endpoint, increment the counter
record_count(r) ==
    /\ pc[r] = "after"
    /\ endpoint' = [endpoint EXCEPT ![r] = ViewName(path[r])]
    /\ REQUEST_COUNT' = Inc(REQUEST_COUNT, CountLabels(r))
    /\ incOf' = [incOf EXCEPT ![r] = <<CountLabels(r)>>]
    /\ pc' = [pc EXCEPT ![r] = "lat_now"]
    /\ UNCHANGED <<clock, start_time, REQUEST_LATENCY, method, path, wake, response,
                   t_now, own_start, obsOf>>

\* _record_metrics, line 42: the left operand time.time() is evaluated first
read_now(r) ==
    /\ pc[r] = "lat_now"
    /\ t_now' = [t_now EXCEPT ![r] = clock]
    /\ pc' = [pc EXCEPT ![r] = "lat_get"]
    /\ UNCHANGED <<clock, start_time, REQUEST_COUNT, REQUEST_LATENCY, method, path,
                   wake, response, endpoint, own_start, incOf, obsOf>>

\* _record_metrics, lines 42-47: the default argument time.time() is evaluated,
\* getattr reads app._start_time, the difference is observed and the response
\* is returned.  The attribute is never deleted, so reading the default and
\* the attribute in one step loses no outcome: when the attribute is absent at
\* the getattr it was absent when the default was read.  The subtraction of
\* two floats raises nothing, so the except branch of line 43 is never taken.
record_latency(r) ==
    /\ pc[r] = "lat_get"
    /\ LET elapsed == Elapsed(t_now[r], start_time, clock) IN
          /\ REQUEST_LATENCY' = Observe(REQUEST_LATENCY, LatencyLabel(r), elapsed)
          /\ obsOf' = [obsOf EXCEPT ![r] = <<[endpoint |-> LatencyLabel(r), value |-> elapsed]>>]
    /\ t_now' = [t_now EXCEPT ![r] = 0]
    /\ own_start' = [own_start EXCEPT ![r] = <<>>]
    /\ pc' = [pc EXCEPT ![r] = "done"]
    /\ UNCHANGED <<clock, start_time, REQUEST_COUNT, method, path, wake, response,
                   endpoint, incOf>>

\* a caller runs a request without the before_request hook: the context is
\* created and the handler dispatched, app._start_time is left as it is
skip_start_timer(r) ==
    /\ pc[r] = "idle"
    /\ Accepted(r)
    /\ \E m \in Methods, p \in Paths :
          /\ method' = [method EXCEPT ![r] = m]
          /\ path' = [path EXCEPT ![r] = p]
    /\ pc' = [pc EXCEPT ![r] = "dispatch"]
    /\ UNCHANGED <<clock, start_time, REQUEST_COUNT, REQUEST_LATENCY, wake, response,
                   endpoint, t_now, own_start, incOf, obsOf>>

Next ==
    \/ Tick
    \/ \E r \in Requests : _start_timer(r)
    \/ \E r \in Requests : index_sleep(r)
    \/ \E r \in Requests : index(r)
    \/ \E r \in Requests : healthz(r)
    \/ \E r \in Requests : metrics(r)
    \/ \E r \in Requests : not_found(r)
    \/ \E r \in Requests : record_count(r)
    \/ \E r \in Requests : read_now(r)
    \/ \E r \in Requests : record_latency(r)

\* the application as the server runs it
Spec == Init /\ [][Next]_vars

NextHook ==
    \/ Next
    \/ \E r \in Requests : skip_start_timer(r)

\* the hooks as functions: _record_metrics may be called without _start_timer
SpecHook == Init /\ [][NextHook]_vars

TypeOK ==
    /\ clock \in 0..MaxClock
    /\ Len(start_time) <= 1
    /\ \A l \in LabelSet : REQUEST_COUNT[l] \in Nat
    /\ \A p \in Paths : REQUEST_LATENCY[p].count \in Nat
    /\ \A r \in Requests : path[r] \in Paths /\ method[r] \in Methods

\* ------------------------------------------------------------- properties
\* the after-hook of r has incremented the counter
Incremented(r) == pc[r] \in {"lat_now", "lat_get", "done"}
\* the after-hook of r is between its increment and its observation
MidHook(r) == pc[r] \in {"lat_now", "lat_get"}
\* the after-hook of r has returned the response
Completed(r) == pc[r] = "done"
\* r takes the step that observes its latency
Observes(r) == pc[r] = "lat_get" /\ pc'[r] = "done"

\* C1: the latency a request to "/" observes is the clock value its own
\* after-hook read minus the clock value its own before-hook stored, whatever
\* other requests do in between.
C1_OwnLatency ==
    [][\A r \in Requests :
          (Observes(r) /\ path[r] = "/" /\ own_start[r] # <<>>)
             => obsOf'[r][1].value = t_now[r] - own_start[r][1]]_vars

\* C2: the counter child {GET, "/", 200} equals the number of GET requests
\* to "/" whose after-hook has incremented it; when all N requests to "/"
\* have completed it is N.
C2_CounterExact ==
    REQUEST_COUNT[<<"GET", "/", 200>>] =
        Cardinality({r \in Requests : method[r] = "GET" /\ path[r] = "/" /\ Incremented(r)})

C2_Witness ==
    /\ \A r \in Requests : Completed(r) /\ path[r] = "/"
    /\ REQUEST_COUNT[<<"GET", "/", 200>>] = NReq

\* C3 as stated: the payload /metrics renders sums to the number of
\* requests that have completed.
C3_ScrapeEqualsCompleted ==
    [][\A r \in Requests :
          (pc[r] = "dispatch" /\ path[r] = "/metrics" /\ pc'[r] = "after")
             => response'[r].samples = Cardinality({q \in Requests : Completed(q)})]_vars

\* C3 as amended: the payload /metrics renders sums to the number of
\* requests whose after-hook has incremented the counter, the completed ones
\* and the ones between increment and return; the scraping request is not
\* among them.
C3_ScrapeEqualsIncremented ==
    [][\A r \in Requests :
          (pc[r] = "dispatch" /\ path[r] = "/metrics" /\ pc'[r] = "after")
             => /\ response'[r].samples = Cardinality({q \in Requests : Incremented(q)})
                /\ ~Incremented(r)]_vars

C3_Witness ==
    \E r \in Requests :
        /\ path[r] = "/metrics"
        /\ pc[r] = "after"
        /\ response[r].samples >= 1
        /\ \E q \in Requests : path[q] = "/nope" /\ Incremented(q)

\* C4: every completed request to "/" has made exactly one observation under
\* endpoint "/", the histogram child holds one observation per such request,
\* and the observed value lies between MinDelay and MaxDelay.
C4_OneObservationInBound ==
    /\ REQUEST_LATENCY["/"].count =
          Cardinality({r \in Requests : path[r] = "/" /\ Completed(r)})
    /\ \A r \in Requests :
          (path[r] = "/" /\ Completed(r))
             => /\ Len(obsOf[r]) = 1
                /\ obsOf[r][1].endpoint = "/"
                /\ obsOf[r][1].value >= MinDelay
                /\ obsOf[r][1].value <= MaxDelay

\* C5: an after-hook that finds no stored start timestamp observes exactly 0
\* and returns the response it was given.
C5_FallbackZero ==
    [][\A r \in Requests :
          (Observes(r) /\ start_time = <<>>)
             => /\ obsOf'[r][1].value = 0
                /\ response'[r] = response[r]]_vars

\* C6: a request whose label derivation fell back to "unknown" has its
\* metric updates recorded under the label value "unknown", and its response
\* is returned.
C6_UnknownLabel ==
    \A r \in Requests :
        (Incremented(r) /\ endpoint[r] = "unknown")
           => /\ incOf[r][1][2] = "unknown"
              /\ response[r] # NoResponse

\* C7: every counter child holds exactly the increments of the requests with
\* that method, raw path and response status, every histogram child exactly
\* the observations of the requests with that raw path, and each request's
\* updates carry its own labels.
C7_OwnLabels ==
    /\ \A l \in LabelSet :
          REQUEST_COUNT[l] =
             Cardinality({r \in Requests :
                 Incremented(r) /\ <<method[r], path[r], response[r].status>> = l})
    /\ \A p \in Paths :
          REQUEST_LATENCY[p].count =
             Cardinality({r \in Requests : Completed(r) /\ path[r] = p})
    /\ \A r \in Requests :
          /\ Incremented(r) => incOf[r] = <<(<<method[r], path[r], response[r].status>>)>>
          /\ Completed(r) => obsOf[r][1].endpoint = path[r]

C7_Witness ==
    \E a, b \in Requests :
        /\ path[a] = "/" /\ pc[a] = "lat_get"
        /\ path[b] = "/nope" /\ Completed(b)
        /\ REQUEST_COUNT[<<"GET", "/", 200>>] = 1
        /\ REQUEST_COUNT[<<"GET", "/nope", 404>>] = 1

\* the next step of a request to /healthz
HealthzStep(r) == healthz(r) \/ record_count(r) \/ read_now(r) \/ record_latency(r)

\* C8: a request to /healthz never sleeps, is answered with status 200 and
\* the body {"status": "ok"}, and its next step is enabled in every state
\* until it has completed.
C8_HealthzPrompt ==
    \A r \in Requests :
        (path[r] = "/healthz" /\ pc[r] # "idle")
           => /\ pc[r] # "sleeping"
              /\ wake[r] = 0
              /\ pc[r] # "dispatch"
                    => /\ response[r].status = 200
                       /\ response[r].body = "{\"status\": \"ok\"}"
              /\ ~Completed(r) => ENABLED HealthzStep(r)

C8_Witness ==
    \E r \in Requests :
        /\ path[r] = "/healthz"
        /\ Completed(r)
        /\ response[r] = HealthzResponse
        /\ \A q \in Requests \ {r} : pc[q] = "sleeping" /\ wake[q] > clock

\* C9: no after-hook observes a negative latency.
C9_NonNegative ==
    \A r \in Requests : obsOf[r] # <<>> => obsOf[r][1].value >= 0

\* C10: when no after-hook is between its increment and its observation,
\* the counter summed over the label combinations of a path equals the number
\* of observations of the histogram child of that path.
C10_CountMatchesObservations ==
    (\A r \in Requests : ~MidHook(r))
       => \A p \in Paths : CountFor(REQUEST_COUNT, p) = REQUEST_LATENCY[p].count

C10_Witness ==
    /\ \A r \in Requests : ~MidHook(r)
    /\ REQUEST_LATENCY["/"].count >= 1
    /\ REQUEST_LATENCY["/nope"].count >= 1
    /\ CountFor(REQUEST_COUNT, "/nope") = 1
====
